---- MODULE Spec2Model ----
(***************************************************************************)
(* Agile Monte Carlo simulator (agile-cost-estimator-montecarlo.py).       *)
(*                                                                         *)
(* The Streamlit script is modelled as a state machine: the sidebar        *)
(* widgets, st.session_state, the global numpy random stream and the       *)
(* position of the running script (idle, or inside the simulation loop).   *)
(* Python floats are modelled as exact rationals <<n, d>> (d > 0, lowest   *)
(* terms); floating-point rounding, infinities and NaN are not modelled.   *)
(***************************************************************************)
EXTENDS Integers, Sequences, FiniteSets, TLC

VARIABLES sidebar, session_state, np_random, pc, i, results, trial,
          report, df_config, draws

vars == <<sidebar, session_state, np_random, pc, i, results, trial,
          report, df_config, draws>>

----------------------------------------------------------------------------
(* Exact rational arithmetic standing for Python float arithmetic.         *)

Abs(x) == IF x < 0 THEN -x ELSE x

RECURSIVE GCD(_, _)
GCD(a, b) == IF b = 0 THEN a ELSE GCD(b, a % b)

R(n, d) ==
    LET g == GCD(Abs(n), d)
    IN  IF g = 0 THEN <<0, 1>> ELSE <<n \div g, d \div g>>

RInt(n) == <<n, 1>>

\* the least common denominator keeps the intermediate products small
LCD(a, b) == (a[2] \div GCD(a[2], b[2])) * b[2]

RAdd(a, b) ==
    LET l == LCD(a, b)
    IN  R(a[1] * (l \div a[2]) + b[1] * (l \div b[2]), l)

RNeg(a) == <<-a[1], a[2]>>

RSub(a, b) == RAdd(a, RNeg(b))

RMul(a, b) ==
    LET g1 == GCD(Abs(a[1]), b[2])
        g2 == GCD(Abs(b[1]), a[2])
        h1 == IF g1 = 0 THEN 1 ELSE g1
        h2 == IF g2 = 0 THEN 1 ELSE g2
    IN  R((a[1] \div h1) * (b[1] \div h2), (a[2] \div h2) * (b[2] \div h1))

\* a / b for b /= 0
RDiv(a, b) ==
    IF b[1] > 0 THEN RMul(a, <<b[2], b[1]>>)
    ELSE RMul(a, <<-b[2], -b[1]>>)

RLt(a, b) ==
    LET l == LCD(a, b)
    IN  a[1] * (l \div a[2]) < b[1] * (l \div b[2])

RLe(a, b) == ~RLt(b, a)

\* Python max(a, b): a unless b > a
PyMax(a, b) == IF RLt(a, b) THEN b ELSE a

\* Python min(a, b): a unless b < a
PyMin(a, b) == IF RLt(b, a) THEN b ELSE a

ZERO == <<0, 1>>

----------------------------------------------------------------------------
(* Constants of the script.                                                *)

DAYS_PER_SPRINT == 10
WORK_DAYS_PER_MONTH == 20
BASE_VELOCITY == 20
SEED == 42
MIN_SCOPE == 100
MIN_VELOCITY == 5
target_markup == R(120, 100)

----------------------------------------------------------------------------
(* Distribution samplers.  Each numpy sampler is a deterministic transform *)
(* of a standard variate delivered by the random stream: z (standard       *)
(* normal), b (a Beta variate in [0,1]), e (unit exponential, >= 0) and u  *)
(* (uniform in [0,1)).                                                     *)

\* np.random.normal(loc, scale)
Normal(loc, scale, z) == RAdd(loc, RMul(scale, z))

\* np.random.exponential(scale)
Exponential(scale, e) == RMul(scale, e)

\* np.random.uniform(low, high)
Uniform(low, high, u) == RAdd(low, RMul(RSub(high, low), u))

----------------------------------------------------------------------------
(* One iteration of the simulation loop, lines 110-153.                    *)

FinalScopeNoFloor(base_scope, scope_volatility, scope_change) ==
    RMul(RInt(base_scope), RAdd(RInt(1), RAdd(scope_volatility, scope_change)))

FinalScope(base_scope, scope_volatility, scope_change) ==
    PyMax(RInt(MIN_SCOPE),
          RMul(RInt(base_scope),
               RAdd(RAdd(RInt(1), scope_volatility), scope_change)))

Velocity(risk_velocity, z) ==
    LET vel_std == RMul(RInt(BASE_VELOCITY), risk_velocity)
    IN  PyMax(RInt(MIN_VELOCITY), Normal(RInt(BASE_VELOCITY), vel_std, z))

LaborCostNoPm(cfg, total_days) ==
    RAdd(RMul(RInt(cfg.num_dev * cfg.rate_dev), total_days),
         RMul(RInt(cfg.num_qa * cfg.rate_qa), total_days))

LaborCost(cfg, total_days) ==
    LET labor_dev == RMul(RInt(cfg.num_dev * cfg.rate_dev), total_days)
        labor_qa  == RMul(RInt(cfg.num_qa * cfg.rate_qa), total_days)
        labor_pm  == RMul(RInt(cfg.num_pm * cfg.rate_pm), total_days)
    IN  RAdd(RAdd(labor_dev, labor_qa), labor_pm)

ReworkFactorNoCap(risk_bugs, b, e) == RAdd(b, Exponential(risk_bugs, e))

ReworkFactor(risk_bugs, b, e) ==
    PyMin(RAdd(b, Exponential(risk_bugs, e)), RInt(1))

ManagedServiceAnnualAlways(cfg, tco_one_off) ==
    RMul(R(15, 100), tco_one_off)

ManagedServiceAnnual(cfg, tco_one_off) ==
    IF cfg.include_managed_service
    THEN RMul(cfg.managed_service_pct, tco_one_off)
    ELSE ZERO

TcoTotalMinus(tco_one_off, managed_service_annual, duration_months) ==
    RSub(tco_one_off,
         RDiv(RMul(managed_service_annual, duration_months), RInt(12)))

TcoTotal(tco_one_off, managed_service_annual, duration_months) ==
    RAdd(tco_one_off,
         RDiv(RMul(managed_service_annual, duration_months), RInt(12)))

ProfitMarginNonZero(profit, revenue_one_off) ==
    IF revenue_one_off[1] /= 0
    THEN RMul(RDiv(profit, revenue_one_off), RInt(100))
    ELSE ZERO

ProfitMargin(profit, revenue_one_off) ==
    IF RLt(ZERO, revenue_one_off)
    THEN RMul(RDiv(profit, revenue_one_off), RInt(100))
    ELSE ZERO

\* The loop body: every local of one iteration, from the configuration and
\* the six variates the iteration draws, in the order it draws them.
Trial(cfg, d) ==
    LET scope_volatility == Normal(ZERO, cfg.risk_scope, d.z_scope)
        scope_change     == RMul(d.b_change, cfg.risk_changes)
        final_scope      == FinalScope(cfg.base_scope, scope_volatility, scope_change)
        velocity         == Velocity(cfg.risk_velocity, d.z_velocity)
        sprints          == RDiv(final_scope, velocity)
        total_days       == RMul(sprints, RInt(DAYS_PER_SPRINT))
        duration_months  == RDiv(total_days, RInt(WORK_DAYS_PER_MONTH))
        labor_cost       == LaborCost(cfg, total_days)
        rework_factor    == ReworkFactor(cfg.risk_bugs, d.b_rework, d.e_rework)
        rework_cost      == RMul(rework_factor, labor_cost)
        monthly_cloud    == Uniform(RInt(cfg.cloud_min), RInt(cfg.cloud_max), d.u_cloud)
        cloud_cost       == RMul(monthly_cloud, duration_months)
        tco_one_off      == RAdd(RAdd(labor_cost, rework_cost), cloud_cost)
        managed_service_annual == ManagedServiceAnnual(cfg, tco_one_off)
        tco_total        == TcoTotal(tco_one_off, managed_service_annual, duration_months)
        revenue_one_off  == RMul(tco_one_off, target_markup)
        profit           == RSub(revenue_one_off, tco_total)
        profit_margin    == ProfitMargin(profit, revenue_one_off)
    IN  [ final_scope |-> final_scope, velocity |-> velocity,
          sprints |-> sprints, total_days |-> total_days,
          duration_months |-> duration_months, labor_cost |-> labor_cost,
          rework_factor |-> rework_factor, rework_cost |-> rework_cost,
          monthly_cloud |-> monthly_cloud, cloud_cost |-> cloud_cost,
          tco_one_off |-> tco_one_off,
          managed_service_annual |-> managed_service_annual,
          tco_total |-> tco_total, revenue_one_off |-> revenue_one_off,
          profit |-> profit, profit_margin |-> profit_margin ]

\* The dictionary appended to results, lines 156-175.
Row(cfg, t) ==
    [ Scope_SP |-> t.final_scope, Velocity_SP |-> t.velocity,
      Sprints |-> t.sprints, Duration_Days |-> t.total_days,
      Duration_Months |-> t.duration_months, Labor_Cost |-> t.labor_cost,
      Rework_Cost |-> t.rework_cost, Cloud_Cost |-> t.cloud_cost,
      Managed_Service_Annual |-> t.managed_service_annual,
      TCO_OneOff |-> t.tco_one_off, TCO_Total |-> t.tco_total,
      Revenue |-> t.revenue_one_off, Profit |-> t.profit,
      Profit_Margin_pct |-> t.profit_margin,
      Risk_Scope |-> cfg.risk_scope, Risk_Velocity |-> cfg.risk_velocity,
      Risk_Bugs |-> cfg.risk_bugs, Risk_Changes |-> cfg.risk_changes ]

----------------------------------------------------------------------------
(* The display section, lines 183-256: statistics over the stored table.   *)

RECURSIVE Insert(_, _)
Insert(x, s) ==
    IF s = <<>> THEN <<x>>
    ELSE IF RLe(x, Head(s)) THEN <<x>> \o s
    ELSE <<Head(s)>> \o Insert(x, Tail(s))

RECURSIVE SortAsc(_)
SortAsc(s) == IF s = <<>> THEN <<>> ELSE Insert(Head(s), SortAsc(Tail(s)))

Column(df, name) == [k \in DOMAIN df |-> df[k][name]]

\* Series.median(): the middle value, or the mean of the two middle values
Median(s) ==
    LET v == SortAsc(s)
        n == Len(v)
    IN  IF n % 2 = 1 THEN v[(n + 1) \div 2]
        ELSE RDiv(RAdd(v[n \div 2], v[n \div 2 + 1]), RInt(2))

QuantileMirrored(s, q) ==
    LET v    == SortAsc(s)
        n    == Len(v)
        h    == RMul(RInt(n - 1), RSub(RInt(1), q))
        lo   == h[1] \div h[2]
        frac == RSub(h, RInt(lo))
    IN  IF lo + 1 >= n THEN v[n]
        ELSE RAdd(v[lo + 1], RMul(frac, RSub(v[lo + 2], v[lo + 1])))

\* Series.quantile(q): linear interpolation between the order statistics
Quantile(s, q) ==
    LET v    == SortAsc(s)
        n    == Len(v)
        h    == RMul(RInt(n - 1), q)
        lo   == h[1] \div h[2]
        frac == RSub(h, RInt(lo))
    IN  IF lo + 1 >= n THEN v[n]
        ELSE RAdd(v[lo + 1], RMul(frac, RSub(v[lo + 2], v[lo + 1])))

\* (df['Profit'] > 0).mean() * 100
ChanceOfProfit(df) ==
    RMul(R(Cardinality({k \in DOMAIN df : RLt(ZERO, df[k].Profit)}), Len(df)),
         RInt(100))

\* f"{x:.1f}": x rounded to one decimal, half to even, as a count of tenths
Fmt1(x) ==
    LET t   == (10 * x[1]) \div x[2]
        rem == 10 * x[1] - t * x[2]
    IN  IF 2 * rem > x[2] THEN t + 1
        ELSE IF 2 * rem < x[2] THEN t
        ELSE IF t % 2 = 1 THEN t + 1 ELSE t

\* What the page shows for a stored table
Display(df) ==
    LET median == Median(Column(df, "Duration_Months"))
        p90    == Quantile(Column(df, "Duration_Months"), R(9, 10))
        chance == ChanceOfProfit(df)
    IN  [ n_rows                |-> Len(df),
          median_duration       |-> median,
          median_duration_text  |-> Fmt1(median),
          p90_duration          |-> p90,
          p90_duration_text     |-> Fmt1(p90),
          chance_of_profit      |-> chance,
          chance_of_profit_text |-> Fmt1(chance) ]

\* The end of every script run: the results page if a table is stored,
\* the welcome page otherwise (lines 183, 258-260)
Page(ss) == IF "df" \in DOMAIN ss THEN <<Display(ss["df"])>> ELSE <<>>

----------------------------------------------------------------------------
(* The global numpy random stream.  The generator is a deterministic       *)
(* function of its state; each draw reads one variate off the state and    *)
(* advances it.                                                            *)

KeepRng(s) == s

\* np.random.seed(42): the state is overwritten, whatever it was
SeedRng(s) == SEED

NextRng(s) == (5 * s + 3) % 64

ZGrid    == << R(0, 1), R(1, 1), R(-1, 1), R(2, 1), R(-4, 1) >>
BetaGrid == << R(1, 4), R(1, 10), R(1, 2) >>
ExpGrid  == << R(0, 1), R(1, 1), R(3, 1) >>
UGrid    == << R(0, 1), R(1, 2), R(9, 10) >>

Variate(grid, s) == grid[(s % Len(grid)) + 1]

\* The six draws of one iteration, in the order the loop body makes them
\* (lines 111, 112, 118, 132, 132, 137), and the state they leave.
DrawSix(s0) ==
    LET s1 == NextRng(s0)
        s2 == NextRng(s1)
        s3 == NextRng(s2)
        s4 == NextRng(s3)
        s5 == NextRng(s4)
    IN  [ d |-> [ z_scope    |-> Variate(ZGrid, s0),
                  b_change   |-> Variate(BetaGrid, s1),
                  z_velocity |-> Variate(ZGrid, s2),
                  b_rework   |-> Variate(BetaGrid, s3),
                  e_rework   |-> Variate(ExpGrid, s4),
                  u_cloud    |-> Variate(UGrid, s5) ],
          next |-> NextRng(s5) ]

----------------------------------------------------------------------------
(* The sidebar: widget values as the script reads them, lines 20-93.       *)

MinSims == 2
MaxSims == 3

\* The values the widgets hold on the first script run (their value=
\* arguments); the simulation-count slider is scaled to MinSims..MaxSims.
DefaultSidebar ==
    [ rate_dev |-> 400, rate_qa |-> 350, rate_pm |-> 500,
      num_dev |-> 2, num_qa |-> 2, num_pm |-> 1,
      base_scope |-> 500,
      risk_scope |-> R(30, 100), risk_velocity |-> R(25, 100),
      risk_bugs |-> R(35, 100), risk_changes |-> R(20, 100),
      use_cloud |-> TRUE, cloud_min |-> 1000, cloud_max |-> 5000,
      include_managed_service |-> TRUE, managed_service_pct |-> R(15, 100),
      n_simulations |-> MinSims ]

\* number_input without min_value: any number can be typed, negative or
\* zero.  The values the user moves the widgets between:
RateDevInputs   == {-50, 400}
BaseScopeInputs == {0, 500}
RiskVelocityInputs == {R(0, 100), R(25, 100)}
NSimValues      == MinSims..MaxSims

\* lines 70-75: the cloud range is read from the two inputs when the box is
\* ticked (they reappear with their defaults), and is 0..0 otherwise
CloudRange(cfg, on) ==
    IF on
    THEN [cfg EXCEPT !.use_cloud = TRUE, !.cloud_min = 1000, !.cloud_max = 5000]
    ELSE [cfg EXCEPT !.use_cloud = FALSE, !.cloud_min = 0, !.cloud_max = 0]

\* lines 79-91: the percentage slider (default 15) / 100, or 0
ManagedService(cfg, on) ==
    IF on
    THEN [cfg EXCEPT !.include_managed_service = TRUE,
                     !.managed_service_pct = R(15, 100)]
    ELSE [cfg EXCEPT !.include_managed_service = FALSE,
                     !.managed_service_pct = ZERO]

NoTable == [k \in {} |-> <<>>]

----------------------------------------------------------------------------
(* The application: script runs triggered by the user.                     *)

Init ==
    /\ sidebar = DefaultSidebar
    /\ session_state = NoTable
    /\ np_random = 0
    /\ pc = "idle"
    /\ i = 0
    /\ results = <<>>
    /\ trial = <<>>
    /\ report = <<>>
    /\ df_config = <<>>
    /\ draws = <<>>

\* A widget changes: the running script, if any, is abandoned with its
\* locals, and the script reruns from the top with the button not pressed,
\* so only the display section (lines 183-260) acts.
Rerun(cfg) ==
    /\ sidebar' = cfg
    /\ pc' = "idle"
    /\ i' = 0
    /\ results' = <<>>
    /\ trial' = <<>>
    /\ report' = Page(session_state)
    /\ UNCHANGED <<session_state, np_random, df_config, draws>>

SetRateDev ==
    \E v \in RateDevInputs \ {sidebar.rate_dev} :
        Rerun([sidebar EXCEPT !.rate_dev = v])

SetBaseScope ==
    \E v \in BaseScopeInputs \ {sidebar.base_scope} :
        Rerun([sidebar EXCEPT !.base_scope = v])

SetRiskVelocity ==
    \E v \in RiskVelocityInputs \ {sidebar.risk_velocity} :
        Rerun([sidebar EXCEPT !.risk_velocity = v])

ToggleCloud == Rerun(CloudRange(sidebar, ~sidebar.use_cloud))

ToggleManagedService ==
    Rerun(ManagedService(sidebar, ~sidebar.include_managed_service))

SetNSimulations ==
    \E v \in NSimValues \ {sidebar.n_simulations} :
        Rerun([sidebar EXCEPT !.n_simulations = v])

\* lines 103-107: the button starts a script run that enters the run block
PressRun ==
    /\ pc' = "loop"
    /\ np_random' = SeedRng(np_random)
    /\ results' = <<>>
    /\ i' = 0
    /\ trial' = <<>>
    /\ UNCHANGED <<sidebar, session_state, report, df_config, draws>>

LoopDoneEarly == i >= 1

\* range(n_simulations) is exhausted
LoopDone == i = sidebar.n_simulations

\* lines 109-175: one iteration
LoopStep ==
    /\ pc = "loop"
    /\ ~LoopDone
    /\ LET six == DrawSix(np_random)
           t   == Trial(sidebar, six.d)
       IN  /\ np_random' = six.next
           /\ trial' = <<t>>
           /\ results' = Append(results, Row(sidebar, t))
    /\ i' = i + 1
    /\ UNCHANGED <<sidebar, session_state, pc, report, df_config, draws>>

\* lines 177-178, then the display section over the table just stored
LoopExit ==
    /\ pc = "loop"
    /\ LoopDone
    /\ session_state' = [df |-> results]
    /\ df_config' = <<sidebar>>
    /\ report' = Page(session_state')
    /\ pc' = "idle"
    /\ i' = 0
    /\ results' = <<>>
    /\ trial' = <<>>
    /\ UNCHANGED <<sidebar, np_random, draws>>

\* The script run is stopped inside the loop (the runtime's stop request or
\* an exception): its locals are lost, the page keeps what it showed.
Interrupt ==
    /\ pc = "loop"
    /\ pc' = "idle"
    /\ i' = 0
    /\ results' = <<>>
    /\ trial' = <<>>
    /\ UNCHANGED <<sidebar, session_state, np_random, report, df_config, draws>>

Next ==
    \/ SetRateDev
    \/ SetBaseScope
    \/ SetRiskVelocity
    \/ ToggleCloud
    \/ ToggleManagedService
    \/ SetNSimulations
    \/ PressRun
    \/ LoopStep
    \/ LoopExit
    \/ Interrupt

Spec == Init /\ [][Next]_vars

----------------------------------------------------------------------------
(* One configured session: the user has set the sidebar, then runs the     *)
(* simulation.  The initial sidebar ranges over a grid of widget values.   *)

RateDevValues      == {-50, 0, 400}
RateQaValues       == {0, 350}
NumPmValues        == {0, 1}
BaseScopeValues    == {-500, 500}
RiskScopeValues    == {R(0, 100), R(30, 100)}
RiskVelocityValues == {R(0, 100), R(25, 100)}
RiskBugsValues     == {R(0, 100), R(35, 100), R(100, 100)}
RiskChangesValues  == {R(0, 100), R(20, 100)}

RunConfigs ==
    { ManagedService(CloudRange(
          [DefaultSidebar EXCEPT !.rate_dev = rd, !.rate_qa = rq, !.num_pm = np,
                                 !.base_scope = bs, !.risk_scope = rs,
                                 !.risk_velocity = rv, !.n_simulations = n],
          cl), ms) :
        rd \in RateDevValues, rq \in RateQaValues, np \in NumPmValues,
        bs \in BaseScopeValues, rs \in RiskScopeValues,
        rv \in RiskVelocityValues, n \in NSimValues,
        cl \in BOOLEAN, ms \in BOOLEAN }

InitRun ==
    /\ sidebar \in RunConfigs
    /\ session_state = NoTable
    /\ np_random = 0
    /\ pc = "idle"
    /\ i = 0
    /\ results = <<>>
    /\ trial = <<>>
    /\ report = <<>>
    /\ df_config = <<>>
    /\ draws = <<>>

NextRun ==
    \/ PressRun
    \/ LoopStep
    \/ LoopExit
    \/ Interrupt

SpecRun == InitRun /\ [][NextRun]_vars

----------------------------------------------------------------------------
(* One loop iteration on its own: the configuration and the six variates   *)
(* the iteration draws range over grids; the step evaluates the loop body. *)

TrialConfigs ==
    { ManagedService(CloudRange(
          [DefaultSidebar EXCEPT !.rate_dev = rd, !.rate_qa = rq, !.num_pm = np,
                                 !.base_scope = bs, !.risk_scope = rs,
                                 !.risk_velocity = rv, !.risk_bugs = rb,
                                 !.risk_changes = rc],
          cl), ms) :
        rd \in RateDevValues, rq \in RateQaValues, np \in NumPmValues,
        bs \in BaseScopeValues, rs \in RiskScopeValues,
        rv \in RiskVelocityValues, rb \in RiskBugsValues,
        rc \in RiskChangesValues, cl \in BOOLEAN, ms \in BOOLEAN }

TrialDraws ==
    [ z_scope    : {R(-4, 1), R(1, 1)},
      b_change   : {R(1, 2)},
      z_velocity : {R(-4, 1), R(1, 1)},
      b_rework   : {R(1, 10), R(1, 2)},
      e_rework   : {R(0, 1), R(3, 1)},
      u_cloud    : {R(0, 1), R(9, 10)} ]

InitTrial ==
    /\ sidebar \in TrialConfigs
    /\ draws \in {<<d>> : d \in TrialDraws}
    /\ session_state = NoTable
    /\ np_random = 0
    /\ pc = "loop"
    /\ i = 0
    /\ results = <<>>
    /\ trial = <<>>
    /\ report = <<>>
    /\ df_config = <<>>

\* lines 110-175 with the draws given
EvaluateTrial ==
    /\ draws /= <<>>
    /\ trial = <<>>
    /\ LET t == Trial(sidebar, draws[1])
       IN  /\ trial' = <<t>>
           /\ results' = Append(results, Row(sidebar, t))
    /\ i' = i + 1
    /\ UNCHANGED <<sidebar, session_state, np_random, pc, report, df_config, draws>>

NextTrial == EvaluateTrial

SpecTrial == InitTrial /\ [][NextTrial]_vars

----------------------------------------------------------------------------
(* Properties.                                                             *)

HasTable == "df" \in DOMAIN session_state

\* C1: every recorded trial has Scope_SP >= 100 and Velocity_SP >= 5,
\* whatever the risk levels and the draws, so sprints = final_scope /
\* velocity divides by a non-zero number.
C1_ScopeVelocityFloors ==
    \A k \in DOMAIN results :
        /\ RLe(RInt(100), results[k].Scope_SP)
        /\ RLe(RInt(5), results[k].Velocity_SP)
        /\ results[k].Velocity_SP[1] /= 0
        /\ RMul(results[k].Sprints, results[k].Velocity_SP) = results[k].Scope_SP

\* a trial in which both floors act: a negative base scope and a velocity
\* draw four deviations below the mean
C1_Witness ==
    /\ results /= <<>>
    /\ sidebar.base_scope < 0
    /\ RLt(ZERO, sidebar.risk_velocity)
    /\ draws[1].z_velocity = R(-4, 1)
    /\ results[1].Scope_SP = RInt(100)
    /\ results[1].Velocity_SP = RInt(5)

\* Configurations section 7 of the specification calls invalid.
InvalidConfig(cfg) ==
    \/ cfg.rate_dev < 0 \/ cfg.rate_qa < 0 \/ cfg.rate_pm < 0
    \/ cfg.base_scope <= 0
    \/ \E r \in {cfg.risk_scope, cfg.risk_velocity, cfg.risk_bugs, cfg.risk_changes} :
           RLt(r, ZERO) \/ RLt(RInt(1), r)
    \/ cfg.cloud_min > cfg.cloud_max
    \/ cfg.n_simulations \notin NSimValues

\* C2: with an invalid configuration, pressing Run never executes a trial
\* and never stores a table.
C2_InvalidConfigRejected ==
    /\ (pc = "loop" /\ InvalidConfig(sidebar)) => results = <<>>
    /\ df_config /= <<>> => ~InvalidConfig(df_config[1])

\* The table a run of cfg builds from a freshly seeded stream: n
\* iterations, each taking its six draws in the loop's order.
RECURSIVE TableFrom(_, _, _)
TableFrom(cfg, s, n) ==
    IF n = 0 THEN <<>>
    ELSE LET six == DrawSix(s)
         IN  <<Row(cfg, Trial(cfg, six.d))>> \o TableFrom(cfg, six.next, n - 1)

\* C3: the stored table is a function of the configuration of the run that
\* produced it alone (so two runs of one configuration store equal tables,
\* record by record, in the same order), and every run starts from the
\* seeded stream, whatever state an earlier run left.
C3_Deterministic ==
    /\ [](HasTable =>
            session_state["df"] =
                TableFrom(df_config[1], SEED, df_config[1].n_simulations))
    /\ [][(pc' = "loop" /\ i' = 0) => np_random' = SEED]_vars

\* a second run of the configuration whose table is stored has evaluated
\* all its trials, after the stream had been left elsewhere
C3_Witness ==
    /\ pc = "loop"
    /\ LoopDone
    /\ HasTable
    /\ df_config = <<sidebar>>
    /\ results = session_state["df"]
    /\ np_random /= SEED

\* C4: the stored table is absent or holds exactly the N records of one
\* completed run; it is replaced only by a run that evaluated all its N
\* trials (so an interrupted run leaves it unchanged), and the page's
\* statistics are computed over all the rows of the stored table.
C4_TableWholesale ==
    /\ [](/\ HasTable =>
                /\ df_config /= <<>>
                /\ Len(session_state["df"]) = df_config[1].n_simulations
          /\ report /= <<>> =>
                /\ HasTable
                /\ report[1].n_rows = Len(session_state["df"]))
    /\ [][session_state' /= session_state =>
            /\ pc = "loop"
            /\ i = sidebar.n_simulations
            /\ Len(results) = sidebar.n_simulations
            /\ session_state' = [df |-> results]]_vars

\* a run was abandoned after its first trial (the stream stands one
\* iteration past the seed, where no completed run leaves it) and the page
\* still shows the whole table of the earlier completed run
C4_Witness ==
    /\ pc = "idle"
    /\ np_random = DrawSix(SEED).next
    /\ HasTable
    /\ Len(session_state["df"]) = df_config[1].n_simulations
    /\ df_config[1].n_simulations /= sidebar.n_simulations
    /\ report /= <<>>
    /\ report[1].n_rows = Len(session_state["df"])

\* C5: profit_margin is 0 whenever revenue <= 0, and 100 * profit / revenue
\* otherwise.
C5_ProfitMargin ==
    \A k \in DOMAIN results :
        LET row == results[k]
        IN  IF RLt(ZERO, row.Revenue)
            THEN RMul(row.Profit_Margin_pct, row.Revenue) = RMul(RInt(100), row.Profit)
            ELSE row.Profit_Margin_pct = ZERO

\* a trial with negative revenue (a negative rate) and a non-zero profit
C5_Witness ==
    /\ results /= <<>>
    /\ RLt(results[1].Revenue, ZERO)
    /\ results[1].Profit /= ZERO
    /\ results[1].Profit_Margin_pct = ZERO

\* C6: 0 <= rework_factor <= 1 in every trial, for every bug-risk level,
\* hence 0 <= rework_cost <= labor_cost whenever labor_cost >= 0.
C6_ReworkBounds ==
    \A k \in DOMAIN trial :
        LET t == trial[k]
        IN  /\ RLe(ZERO, t.rework_factor)
            /\ RLe(t.rework_factor, RInt(1))
            /\ RLe(ZERO, t.labor_cost) =>
                   /\ RLe(ZERO, t.rework_cost)
                   /\ RLe(t.rework_cost, t.labor_cost)

\* a trial whose Beta plus Exponential sum exceeds 1 and is capped
C6_Witness ==
    /\ trial /= <<>>
    /\ RLt(RInt(1), RAdd(draws[1].b_rework,
                         Exponential(sidebar.risk_bugs, draws[1].e_rework)))
    /\ trial[1].rework_factor = RInt(1)
    /\ RLt(ZERO, trial[1].labor_cost)
    /\ trial[1].rework_cost = trial[1].labor_cost

\* C7: tco_total = tco_one_off + managed_service_annual * duration_months
\* / 12; it equals tco_one_off when managed service is disabled; and with
\* cloud at 1000..5000 and managed service at 15% it is strictly greater
\* than tco_one_off whenever managed_service_annual > 0 and
\* duration_months > 0.
C7_TcoComposition ==
    \A k \in DOMAIN trial :
        LET t == trial[k]
        IN  /\ t.tco_total =
                   RAdd(t.tco_one_off,
                        RDiv(RMul(t.managed_service_annual, t.duration_months),
                             RInt(12)))
            /\ ~sidebar.include_managed_service => t.tco_total = t.tco_one_off
            /\ ( /\ sidebar.use_cloud
                 /\ sidebar.cloud_min = 1000
                 /\ sidebar.cloud_max = 5000
                 /\ sidebar.include_managed_service
                 /\ sidebar.managed_service_pct = R(15, 100)
                 /\ RLt(ZERO, t.managed_service_annual)
                 /\ RLt(ZERO, t.duration_months) )
               => RLt(t.tco_one_off, t.tco_total)

\* scenario B with a positive annual managed-service cost
C7_Witness ==
    /\ trial /= <<>>
    /\ sidebar.use_cloud
    /\ sidebar.include_managed_service
    /\ sidebar.managed_service_pct = R(15, 100)
    /\ RLt(ZERO, trial[1].managed_service_annual)
    /\ RLt(trial[1].tco_one_off, trial[1].tco_total)

ScenarioA(cfg) ==
    /\ cfg.base_scope = 500
    /\ cfg.rate_dev = 400 /\ cfg.num_dev = 2
    /\ cfg.rate_qa = 350 /\ cfg.num_qa = 2
    /\ cfg.rate_pm = 500 /\ cfg.num_pm = 1
    /\ cfg.risk_scope = ZERO /\ cfg.risk_velocity = ZERO
    /\ cfg.risk_bugs = ZERO /\ cfg.risk_changes = ZERO
    /\ ~cfg.use_cloud
    /\ ~cfg.include_managed_service

\* C8: in scenario A every trial has velocity 20, 25 sprints, 250 days,
\* 12.5 months, labor cost 500000, rework cost in [0, 500000] and cloud
\* cost 0.
C8_ScenarioA ==
    ScenarioA(sidebar) =>
        \A k \in DOMAIN trial :
            LET t == trial[k]
            IN  /\ t.velocity = RInt(20)
                /\ t.sprints = RInt(25)
                /\ t.total_days = RInt(250)
                /\ t.duration_months = R(25, 2)
                /\ t.labor_cost = RInt(500000)
                /\ RLe(ZERO, t.rework_cost)
                /\ RLe(t.rework_cost, RInt(500000))
                /\ t.cloud_cost = ZERO

\* a scenario A trial, with the baseline rework that persists at zero risk
C8_Witness ==
    /\ ScenarioA(sidebar)
    /\ trial /= <<>>
    /\ results /= <<>>
    /\ results[1].Velocity_SP = RInt(20)
    /\ RLt(ZERO, results[1].Rework_Cost)

\* C9: the reported 90th-percentile duration is >= the reported median
\* duration, which is >= 0 (as computed, and as printed to one decimal).
C9_DurationQuantiles ==
    \A k \in DOMAIN report :
        /\ RLe(report[k].median_duration, report[k].p90_duration)
        /\ RLe(ZERO, report[k].median_duration)
        /\ report[k].median_duration_text <= report[k].p90_duration_text
        /\ 0 <= report[k].median_duration_text

\* a completed run whose trials differ in duration
C9_Witness ==
    /\ report /= <<>>
    /\ HasTable
    /\ report[1].n_rows = sidebar.n_simulations
    /\ RLt(report[1].median_duration, report[1].p90_duration)
    /\ report[1].median_duration_text < report[1].p90_duration_text

\* The closed form of the profit of a row under the run's configuration.
ProfitLaw(cfg, row) ==
    LET share == RDiv(RMul(cfg.managed_service_pct, row.Duration_Months), RInt(12))
    IN  /\ row.Profit = RMul(row.TCO_OneOff, RSub(R(20, 100), share))
        /\ RLt(ZERO, row.Profit) <=> RLt(share, R(20, 100))

\* The configurations the specification calls valid as to rates and scope.
ValidRatesAndScope(cfg) ==
    /\ cfg.rate_dev >= 0 /\ cfg.rate_qa >= 0 /\ cfg.rate_pm >= 0
    /\ cfg.base_scope > 0

\* C10 as stated, for runs of configurations with non-negative rates and
\* a positive scope: the profit law for every trial with tco_one_off > 0,
\* and with managed service disabled every trial has profit > 0 and the
\* chance of profit shown is 100%.
C10_Original ==
    (HasTable /\ ValidRatesAndScope(df_config[1])) =>
        LET df  == session_state["df"]
            cfg == df_config[1]
        IN  /\ \A k \in DOMAIN df :
                   RLt(ZERO, df[k].TCO_OneOff) => ProfitLaw(cfg, df[k])
            /\ ~cfg.include_managed_service =>
                   /\ \A k \in DOMAIN df : RLt(ZERO, df[k].Profit)
                   /\ report[1].chance_of_profit = RInt(100)

\* C10 (amended): the profit law for every trial with tco_one_off > 0;
\* with managed service disabled every trial with tco_one_off > 0 has
\* profit > 0, and the chance of profit shown is 100% when every trial of
\* the run has tco_one_off > 0.
C10_ProfitSign ==
    HasTable =>
        LET df  == session_state["df"]
            cfg == df_config[1]
        IN  /\ \A k \in DOMAIN df :
                   RLt(ZERO, df[k].TCO_OneOff) => ProfitLaw(cfg, df[k])
            /\ ~cfg.include_managed_service =>
                   /\ \A k \in DOMAIN df :
                          RLt(ZERO, df[k].TCO_OneOff) => RLt(ZERO, df[k].Profit)
                   /\ (\A k \in DOMAIN df : RLt(ZERO, df[k].TCO_OneOff)) =>
                          report[1].chance_of_profit = RInt(100)

\* a run with managed service enabled in which one trial makes a profit and
\* another, long enough, makes a loss
C10_Witness ==
    /\ HasTable
    /\ df_config[1].include_managed_service
    /\ \E k \in DOMAIN session_state["df"] :
           /\ RLt(ZERO, session_state["df"][k].TCO_OneOff)
           /\ RLt(ZERO, session_state["df"][k].Profit)
    /\ \E k \in DOMAIN session_state["df"] :
           /\ RLt(ZERO, session_state["df"][k].TCO_OneOff)
           /\ RLt(session_state["df"][k].Profit, ZERO)
    /\ RLt(ZERO, report[1].chance_of_profit)
    /\ RLt(report[1].chance_of_profit, RInt(100))

====
